---- MODULE Spec2Model ----
(***************************************************************************)
(* Razirp/ThreadPool: the pool controller (src/src/thread_pool.cpp), the   *)
(* worker loop (src/src/worker_thread.cpp) and the submission path         *)
(* (src/include/thread_pool.hpp) as one state machine.  Every step is one  *)
(* synchronisation point of the C++ code: a section run under a mutex that *)
(* contains no blocking call is one step, a blocking call (mutex lock,     *)
(* semaphore acquire, condition wait, join) is a step of its own.          *)
(***************************************************************************)
EXTENDS Integers, Sequences, FiniteSets, TLC

(* ---- bounds ---- *)
MaxWorkers == 2
NumSubmitters == 2
MaxTasks == 2
MaxCap == 1
MaxSet == 2
MaxPauses == 1
MaxRepeat == 2
MaxAdd == 2
MaxRemove == 3
SemCap == 2

WorkerIds == 1..MaxWorkers
Admin == 10
Submitters == (Admin + 1)..(Admin + NumSubmitters)
Clients == {Admin} \cup Submitters
TaskIds == 1..MaxTasks
NoOwner == -1
NoTask == 0
NoResult == -1
BrokenPromise == -2
TestException == -3

(* the operands of the test callable add(a, b): Test 1 of                  *)
(* tests/test_thread_pool.cpp submits add(2, 3), Test 2 add(4, 5)          *)
OneArgPair == {<<2, 3>>}
ArgPairs == {<<2, 3>>, <<4, 5>>}

(* Test 3 submits throw_exception, which takes no operand and throws       *)
(* "Test exception"; Test 4 then submits add(8, 9)                         *)
ThrowException == <<>>
FailCallables == {ThrowException, <<8, 9>>}

PoolStatuses == {"RUNNING", "PAUSED", "SHUTDOWN", "TERMINATING", "TERMINATED"}
WorkerStatuses == {"RUNNING", "PAUSED", "BLOCKED", "TERMINATING", "TERMINATED"}

VARIABLES
    status,          \* thread_pool::status
    max_task_count,  \* thread_pool::max_task_count
    task_queue,      \* thread_pool::task_queue, a sequence of task ids
    worker_list,     \* thread_pool::worker_list, a sequence of worker ids
    status_mutex,    \* exclusive owner of thread_pool::status_mutex
    queue_mutex,     \* exclusive owner of thread_pool::task_queue_mutex
    queue_readers,   \* callers holding thread_pool::task_queue_mutex shared
    wstatus,         \* worker_thread::status, per worker
    pause_sem,       \* worker_thread::pause_sem, per worker
    wpc,             \* position of each worker thread in its loop
    wtask,           \* the task a worker holds after front()/pop()
    cpc,             \* position of each calling thread
    cop,             \* the public operation each calling thread is inside
    ci,              \* loop index of a caller iterating over worker_list
    clast,           \* last_status held by a caller inside ~worker_thread
    cargs,           \* the arguments bound by a submit call
    cret,            \* what the last call of each caller returned
    targs,           \* per task: the arguments bound into the packaged_task
    result,          \* per task: the value in the shared state of the future
    exec_count,      \* per task: how many times the callable was invoked
    accepted,        \* number of tasks enqueued so far (ids 1..accepted)
    deq_log,         \* the task ids in the order they were popped
    joined,          \* workers whose thread has been joined
    pauses,          \* number of pause() calls that paused the pool
    list_at_call,    \* history: worker_list when the last remove_thread began
    wstatus_mutex    \* per worker: the thread that owns its status_mutex

vars == <<status, max_task_count, task_queue, worker_list, status_mutex,
          queue_mutex, queue_readers, wstatus, pause_sem, wpc, wtask, cpc, cop, ci, clast, cargs, cret,
          targs, result, exec_count, accepted, deq_log, joined, pauses, list_at_call, wstatus_mutex>>

poolVars == <<status, max_task_count, worker_list, status_mutex>>
queueLocks == <<queue_mutex, queue_readers>>
workerVars == <<wstatus, pause_sem, wpc, wtask>>
clientVars == <<cpc, cop, ci, clast, cargs, cret>>
taskVars == <<targs, result, exec_count>>

(* ---- helpers ---- *)

(* the callable of tests/test_thread_pool.cpp *)
add(a, b) == a + b

(* what the packaged_task leaves in the future's shared state: the value   *)
(* of add, or the exception thrown by throw_exception                      *)
Invoke(args) ==
    IF args = ThrowException THEN TestException ELSE add(args[1], args[2])

AfterTaskStopOnFailure(outcome) ==
    IF outcome = TestException THEN "stopped" ELSE "top"

(* where the worker goes after task(): the loop head, after a normal       *)
(* return as after the catch block's continue                              *)
AfterTask(outcome) == "top"

(* thread_pool::thread_pool: initial_thread_count workers, all RUNNING *)
InitialList(n) == [i \in 1..n |-> i]

InList(w) == \E i \in 1..Len(worker_list) : worker_list[i] = w

(* std::binary_semaphore::release; a release beyond the maximum of one     *)
(* permit is outside the semaphore's contract, the counter implementation  *)
(* may keep the extra permit or not                                        *)
SemAfterRelease(n) == IF n = 0 THEN {1} ELSE {n, IF n < SemCap THEN n + 1 ELSE n}

(* a pop that leaves the front element in the queue *)
PopNothing(q) == q

(* std::queue::pop *)
PopFront(q) == Tail(q)

(* an emplace at the front of the queue *)
PushFront(q, t) == <<t>> \o q

(* std::queue::emplace *)
PushBack(q, t) == Append(q, t)

(* workers blocked in task_queue_cv.wait *)
CvWaiters == {w \in WorkerIds : wpc[w] = "cv_waiting"}

(* task_queue_cv.notify_all *)
NotifyAll(pcs) == [w \in WorkerIds |-> IF pcs[w] = "cv_waiting" THEN "cv_woken" ELSE pcs[w]]

(* a notify_one that wakes nobody *)
NotifyNobody(pcs) == {pcs}

(* task_queue_cv.notify_one: the sets of program counters it can produce *)
NotifyOne(pcs) ==
    IF \E w \in WorkerIds : pcs[w] = "cv_waiting"
    THEN {[pcs EXCEPT ![w] = "cv_woken"] : w \in {x \in WorkerIds : pcs[x] = "cv_waiting"}}
    ELSE {pcs}

Init ==
    /\ status = "RUNNING"
    /\ max_task_count \in 0..MaxCap
    /\ task_queue = <<>>
    /\ \E n \in 0..MaxWorkers : worker_list = InitialList(n)
    /\ status_mutex = NoOwner
    /\ queue_mutex = NoOwner
    /\ queue_readers = {}
    /\ wstatus = [w \in WorkerIds |-> "RUNNING"]
    /\ pause_sem = [w \in WorkerIds |-> 0]
    /\ wpc = [w \in WorkerIds |-> IF InList(w) THEN "top" ELSE "none"]
    /\ wtask = [w \in WorkerIds |-> NoTask]
    /\ cpc = [c \in Clients |-> "idle"]
    /\ cop = [c \in Clients |-> "none"]
    /\ ci = [c \in Clients |-> 0]
    /\ clast = [c \in Clients |-> "none"]
    /\ cargs = [c \in Clients |-> <<0, 0>>]
    /\ cret = [c \in Clients |-> "none"]
    /\ targs = [t \in TaskIds |-> <<0, 0>>]
    /\ result = [t \in TaskIds |-> NoResult]
    /\ exec_count = [t \in TaskIds |-> 0]
    /\ accepted = 0
    /\ deq_log = <<>>
    /\ joined = {}
    /\ pauses = 0
    /\ list_at_call = <<>>
    /\ wstatus_mutex = [w \in WorkerIds |-> NoOwner]

(* task_queue_mutex can be locked exclusively: no owner and no reader *)
QueueFree == queue_mutex = NoOwner /\ queue_readers = {}

(* task_queue_mutex can be locked shared: no exclusive owner *)
QueueReadable == queue_mutex = NoOwner

(* ---------------------------------------------------------------------- *)
(* worker_thread: the thread body                                          *)
(* ---------------------------------------------------------------------- *)

(* while (task_queue.empty()): where the worker goes with the queue lock held *)
EmptyCheck(q) == IF q = <<>> THEN "pre_wait" ELSE "dequeue"

(* a return from the thread body: unique_lock_task_queue's destructor unlocks *)
ReleasedBy(w, owner) == IF owner = w THEN NoOwner ELSE owner

(* the worker's unique_lock_status can be locked, or is already owned      *)
(* (lines 23 and 26-29, 61-64, 98-101)                                     *)
StatusLockable(w) == wstatus_mutex[w] \in {NoOwner, w}

(* a switch that leaves every branch with unique_lock_status still owned *)
StatusKept(w, owners) == [owners EXCEPT ![w] = w]

(* every branch of a status switch gives up unique_lock_status: unlock()   *)
(* before pause_sem.acquire() (lines 41, 73, 109), after break_flag (lines *)
(* 51, 90, 124), before a throw, or its destructor on return               *)
StatusUnlocked(w, owners) == [owners EXCEPT ![w] = NoOwner]

(* the worker locks its own status_mutex ahead of a status switch *)
WorkerLockStatus(w) ==
    /\ wpc[w] \in {"top", "pre_wait", "post_wait"}
    /\ wstatus_mutex[w] = NoOwner
    /\ wstatus_mutex' = [wstatus_mutex EXCEPT ![w] = w]
    /\ UNCHANGED <<poolVars, clientVars, taskVars, task_queue, queueLocks,
                   workerVars, accepted, deq_log, joined, pauses, list_at_call>>

(* lines 23-54: the status switch at the top of an iteration *)
WorkerTop(w) ==
    /\ wpc[w] = "top"
    /\ StatusLockable(w)
    /\ wstatus_mutex' = StatusUnlocked(w, wstatus_mutex)
    /\ CASE wstatus[w] = "TERMINATING" ->
              /\ wstatus' = [wstatus EXCEPT ![w] = "TERMINATED"]
              /\ wpc' = [wpc EXCEPT ![w] = "exited"]
         [] wstatus[w] = "TERMINATED" ->
              /\ wpc' = [wpc EXCEPT ![w] = "exited"]
              /\ UNCHANGED wstatus
         [] wstatus[w] = "RUNNING" ->
              /\ wpc' = [wpc EXCEPT ![w] = "lock_queue"]
              /\ UNCHANGED wstatus
         [] wstatus[w] = "PAUSED" ->
              /\ wpc' = [wpc EXCEPT ![w] = "sem_top"]
              /\ UNCHANGED wstatus
         [] OTHER ->
              /\ wpc' = [wpc EXCEPT ![w] = "error"]
              /\ UNCHANGED wstatus
    /\ UNCHANGED <<poolVars, clientVars, taskVars, task_queue, queueLocks,
                   pause_sem, wtask, accepted, deq_log, joined, pauses, list_at_call>>

(* pause_sem.acquire() at lines 42, 75 and 111 *)
WorkerAcquire(w) ==
    /\ wpc[w] \in {"sem_top", "sem_pre", "sem_post"}
    /\ pause_sem[w] > 0
    /\ pause_sem' = [pause_sem EXCEPT ![w] = @ - 1]
    /\ wpc' = [wpc EXCEPT ![w] = CASE wpc[w] = "sem_top" -> "top"
                                   [] wpc[w] = "sem_pre" -> "relock_pre"
                                   [] OTHER -> "relock_post"]
    /\ UNCHANGED <<poolVars, clientVars, taskVars, task_queue, queueLocks,
                   wstatus, wtask, accepted, deq_log, joined, pauses, list_at_call, wstatus_mutex>>

(* line 56: the queue lock is taken, line 57: the first emptiness check;   *)
(* lines 76 and 112: the queue lock is taken again after the semaphore;    *)
(* line 94: wait() takes the lock again after a wake                       *)
WorkerLockQueue(w) ==
    /\ wpc[w] \in {"lock_queue", "relock_pre", "relock_post", "cv_woken"}
    /\ QueueFree
    /\ queue_mutex' = w
    /\ wpc' = [wpc EXCEPT ![w] = CASE wpc[w] = "lock_queue" -> EmptyCheck(task_queue)
                                   [] wpc[w] = "relock_pre" -> "pre_wait"
                                   [] OTHER -> "post_wait"]
    /\ UNCHANGED <<poolVars, clientVars, taskVars, task_queue,
                   wstatus, pause_sem, wtask, accepted, deq_log, joined, pauses, list_at_call, wstatus_mutex>>
    /\ UNCHANGED queue_readers

(* lines 59-93: the status switch before the wait, queue lock held *)
WorkerPreWait(w) ==
    /\ wpc[w] = "pre_wait"
    /\ StatusLockable(w)
    /\ wstatus_mutex' = StatusUnlocked(w, wstatus_mutex)
    /\ CASE wstatus[w] = "TERMINATING" ->
              /\ wstatus' = [wstatus EXCEPT ![w] = "TERMINATED"]
              /\ wpc' = [wpc EXCEPT ![w] = "exited"]
              /\ queue_mutex' = ReleasedBy(w, queue_mutex)
         [] wstatus[w] = "TERMINATED" ->
              /\ wpc' = [wpc EXCEPT ![w] = "exited"]
              /\ queue_mutex' = ReleasedBy(w, queue_mutex)
              /\ UNCHANGED wstatus
         [] wstatus[w] = "PAUSED" ->
              /\ wpc' = [wpc EXCEPT ![w] = "sem_pre"]
              /\ queue_mutex' = ReleasedBy(w, queue_mutex)
              /\ UNCHANGED wstatus
         [] wstatus[w] = "RUNNING" ->
              /\ wstatus' = [wstatus EXCEPT ![w] = "BLOCKED"]
              /\ wpc' = [wpc EXCEPT ![w] = "cv_wait"]
              /\ UNCHANGED queue_mutex
         [] OTHER ->
              /\ wpc' = [wpc EXCEPT ![w] = "cv_wait"]
              /\ UNCHANGED <<wstatus, queue_mutex>>
    /\ UNCHANGED <<poolVars, clientVars, taskVars, task_queue,
                   pause_sem, wtask, accepted, deq_log, joined, pauses, list_at_call>>
    /\ UNCHANGED queue_readers

(* line 94: task_queue_cv.wait releases the queue lock and blocks *)
WorkerWait(w) ==
    /\ wpc[w] = "cv_wait"
    /\ wpc' = [wpc EXCEPT ![w] = "cv_waiting"]
    /\ queue_mutex' = ReleasedBy(w, queue_mutex)
    /\ UNCHANGED <<poolVars, clientVars, taskVars, task_queue,
                   wstatus, pause_sem, wtask, accepted, deq_log, joined, pauses, list_at_call, wstatus_mutex>>
    /\ UNCHANGED queue_readers

(* condition_variable_any::wait may return without a notification *)
SpuriousWake(w) ==
    /\ wpc[w] = "cv_waiting"
    /\ wpc' = [wpc EXCEPT ![w] = "cv_woken"]
    /\ UNCHANGED <<poolVars, clientVars, taskVars, task_queue, queueLocks,
                   wstatus, pause_sem, wtask, accepted, deq_log, joined, pauses, list_at_call, wstatus_mutex>>

(* lines 95-128: the status switch after the wait, queue lock held; on     *)
(* RUNNING the loop condition of line 57 is evaluated again                *)
WorkerPostWait(w) ==
    /\ wpc[w] = "post_wait"
    /\ StatusLockable(w)
    /\ wstatus_mutex' = StatusUnlocked(w, wstatus_mutex)
    /\ CASE wstatus[w] = "TERMINATING" ->
              /\ wstatus' = [wstatus EXCEPT ![w] = "TERMINATED"]
              /\ wpc' = [wpc EXCEPT ![w] = "exited"]
              /\ queue_mutex' = ReleasedBy(w, queue_mutex)
         [] wstatus[w] = "TERMINATED" ->
              /\ wpc' = [wpc EXCEPT ![w] = "exited"]
              /\ queue_mutex' = ReleasedBy(w, queue_mutex)
              /\ UNCHANGED wstatus
         [] wstatus[w] = "PAUSED" ->
              /\ wpc' = [wpc EXCEPT ![w] = "sem_post"]
              /\ queue_mutex' = ReleasedBy(w, queue_mutex)
              /\ UNCHANGED wstatus
         [] wstatus[w] = "BLOCKED" ->
              /\ wstatus' = [wstatus EXCEPT ![w] = "RUNNING"]
              /\ wpc' = [wpc EXCEPT ![w] = EmptyCheck(task_queue)]
              /\ UNCHANGED queue_mutex
         [] OTHER ->
              /\ wpc' = [wpc EXCEPT ![w] = EmptyCheck(task_queue)]
              /\ UNCHANGED <<wstatus, queue_mutex>>
    /\ UNCHANGED <<poolVars, clientVars, taskVars, task_queue,
                   pause_sem, wtask, accepted, deq_log, joined, pauses, list_at_call>>
    /\ UNCHANGED queue_readers

(* a broadcast on task_queue_empty_cv that reaches no waiter *)
NotifyEmptyNobody(pcs) == pcs

(* task_queue_empty_cv.notify_all: every caller waiting for the queue to   *)
(* become empty goes on to take the queue lock again                       *)
NotifyEmpty(pcs) ==
    [c \in Clients |-> CASE pcs[c] = "sd_waiting" -> "sd_lock"
                          [] pcs[c] = "w_waiting" -> "w_lock"
                          [] OTHER -> pcs[c]]

(* lines 133-139: front(), pop(), the now-empty broadcast, unlock *)
WorkerDequeue(w) ==
    /\ wpc[w] = "dequeue"
    /\ wtask' = [wtask EXCEPT ![w] = Head(task_queue)]
    /\ task_queue' = PopFront(task_queue)
    /\ deq_log' = Append(deq_log, Head(task_queue))
    /\ queue_mutex' = ReleasedBy(w, queue_mutex)
    /\ wpc' = [wpc EXCEPT ![w] = "run"]
    /\ cpc' = IF PopFront(task_queue) = <<>> THEN NotifyEmpty(cpc) ELSE cpc
    /\ UNCHANGED <<poolVars, cop, ci, clast, cargs, cret, taskVars,
                   wstatus, pause_sem, accepted, joined, pauses, list_at_call, wstatus_mutex>>
    /\ UNCHANGED queue_readers

(* lines 140-146: task() invokes the packaged_task, which stores the value *)
(* or the exception of the bound callable in the future's shared state;    *)
(* the worker loops                                                        *)
WorkerRun(w) ==
    /\ wpc[w] = "run"
    /\ exec_count' = [exec_count EXCEPT ![wtask[w]] = @ + 1]
    /\ result' = [result EXCEPT ![wtask[w]] = Invoke(targs[wtask[w]])]
    /\ wtask' = [wtask EXCEPT ![w] = NoTask]
    /\ wpc' = [wpc EXCEPT ![w] = AfterTask(Invoke(targs[wtask[w]]))]
    /\ UNCHANGED <<poolVars, clientVars, targs, task_queue, queueLocks,
                   wstatus, pause_sem, accepted, deq_log, joined, pauses, list_at_call, wstatus_mutex>>

WorkerStep(w) ==
    \/ WorkerTop(w)
    \/ WorkerAcquire(w)
    \/ WorkerLockQueue(w)
    \/ WorkerPreWait(w)
    \/ WorkerWait(w)
    \/ WorkerPostWait(w)
    \/ WorkerDequeue(w)
    \/ WorkerRun(w)

(* ---------------------------------------------------------------------- *)
(* thread_pool::submit (src/include/thread_pool.hpp)                       *)
(* ---------------------------------------------------------------------- *)

NoCallInProgress == \A c \in Clients : cpc[c] = "idle"
PoolAlive == \A c \in Clients : cop[c] # "destroy"

(* a status test that also lets a paused pool accept *)
StatusAcceptsPaused(s) == s \in {"RUNNING", "PAUSED"}

(* line 227: the test that lets a submission through *)
StatusAccepts(s) == s = "RUNNING"

(* lines 229-237: the error a rejected submission throws; Test 7 of        *)
(* tests/test_thread_pool.cpp fixes the one of a terminated pool, Test 4   *)
(* the one of a paused pool                                                *)
SubmitError(s) ==
    CASE s = "TERMINATED" -> "terminated"
      [] s = "PAUSED" -> "paused"
      [] OTHER -> "not_running"

(* the errors of a pool that is not accepting submissions *)
NotAccepting == {"terminated", "paused", "not_running"}

(* line 239, left operand: max_task_count > 0 *)
Bounded(max) == max > 0

(* a capacity test that lets one task more into the queue *)
AtBoundStrict(max, q) == Len(q) > max

(* line 239, right operand: get_task_count() >= max_task_count, the bound  *)
(* loaded a second time                                                    *)
AtBound(max, q) == Len(q) >= max

(* line 239: max_task_count > 0 && get_task_count() >= max_task_count with *)
(* both loads of the bound giving the same value                           *)
QueueIsFull(max, q) == Bounded(max) /\ AtBound(max, q)

(* a caller binds the callable and its arguments, drawn from A, and enters *)
(* submit()                                                                *)
SubmitCall(c, A) ==
    /\ c \in Submitters
    /\ PoolAlive
    /\ cpc[c] = "idle"
    /\ accepted + Cardinality({d \in Clients : cpc[d] \in {"s_status", "s_full", "s_enqueue"}}) < MaxTasks
    /\ \E a \in A : cargs' = [cargs EXCEPT ![c] = a]
    /\ cpc' = [cpc EXCEPT ![c] = "s_status"]
    /\ cop' = [cop EXCEPT ![c] = "submit"]
    /\ cret' = [cret EXCEPT ![c] = "none"]
    /\ UNCHANGED <<poolVars, workerVars, taskVars, task_queue, queueLocks,
                   ci, clast, accepted, deq_log, joined, pauses, list_at_call, wstatus_mutex>>

(* lines 227-239: status.load() and the rejection of a pool not RUNNING;   *)
(* on RUNNING the first load of max_task_count, which no other thread's    *)
(* step can tell apart from one made right after the status load           *)
SubmitCheckStatus(c) ==
    /\ cpc[c] = "s_status"
    /\ IF StatusAccepts(status)
       THEN /\ cpc' = [cpc EXCEPT ![c] = IF Bounded(max_task_count)
                                         THEN "s_full" ELSE "s_enqueue"]
            /\ UNCHANGED <<cret, cop>>
       ELSE /\ cpc' = [cpc EXCEPT ![c] = "idle"]
            /\ cop' = [cop EXCEPT ![c] = "none"]
            /\ cret' = [cret EXCEPT ![c] = SubmitError(status)]
    /\ UNCHANGED <<poolVars, workerVars, taskVars, task_queue, queueLocks,
                   ci, clast, cargs, accepted, deq_log, joined, pauses, list_at_call, wstatus_mutex>>

(* lines 239-242: get_task_count() reads the size under a shared queue    *)
(* lock and is compared with max_task_count, loaded again                  *)
SubmitCheckFull(c) ==
    /\ cpc[c] = "s_full"
    /\ QueueReadable
    /\ IF AtBound(max_task_count, task_queue)
       THEN /\ cpc' = [cpc EXCEPT ![c] = "idle"]
            /\ cop' = [cop EXCEPT ![c] = "none"]
            /\ cret' = [cret EXCEPT ![c] = "queue_full"]
       ELSE /\ cpc' = [cpc EXCEPT ![c] = "s_enqueue"]
            /\ UNCHANGED <<cret, cop>>
    /\ UNCHANGED <<poolVars, workerVars, taskVars, task_queue, queueLocks,
                   ci, clast, cargs, accepted, deq_log, joined, pauses, list_at_call, wstatus_mutex>>

(* lines 244-252: the packaged_task is built and emplaced under the        *)
(* exclusive queue lock, which is then released                            *)
SubmitEnqueue(c) ==
    /\ cpc[c] = "s_enqueue"
    /\ QueueFree
    /\ accepted' = accepted + 1
    /\ targs' = [targs EXCEPT ![accepted + 1] = cargs[c]]
    /\ task_queue' = PushBack(task_queue, accepted + 1)
    /\ cpc' = [cpc EXCEPT ![c] = "s_notify"]
    /\ UNCHANGED <<poolVars, workerVars, result, exec_count, queueLocks,
                   cop, ci, clast, cargs, cret, deq_log, joined, pauses, list_at_call, wstatus_mutex>>

(* lines 253-254: task_queue_cv.notify_one(), the future is returned *)
SubmitNotify(c) ==
    /\ cpc[c] = "s_notify"
    /\ wpc' \in NotifyOne(wpc)
    /\ cpc' = [cpc EXCEPT ![c] = "idle"]
    /\ cop' = [cop EXCEPT ![c] = "none"]
    /\ cret' = [cret EXCEPT ![c] = "ok"]
    /\ cargs' = [cargs EXCEPT ![c] = <<0, 0>>]
    /\ UNCHANGED <<poolVars, taskVars, task_queue, queueLocks, wstatus,
                   pause_sem, wtask, ci, clast, accepted, deq_log, joined, pauses, list_at_call, wstatus_mutex>>

SubmitStep(c) ==
    \/ SubmitCheckStatus(c)
    \/ SubmitCheckFull(c)
    \/ SubmitEnqueue(c)
    \/ SubmitNotify(c)

(* thread_pool::set_max_task_count: max_task_count.store(count_to_set),    *)
(* no lock is taken                                                        *)
SetMaxTaskCount(c, n) ==
    /\ c = Admin
    /\ PoolAlive
    /\ cpc[c] = "idle"
    /\ max_task_count' = n
    /\ UNCHANGED <<status, worker_list, status_mutex, workerVars, clientVars,
                   taskVars, task_queue, queueLocks, accepted, deq_log, joined,
                   pauses, list_at_call, wstatus_mutex>>

(* ---------------------------------------------------------------------- *)
(* worker_thread::pause / resume / terminate, each under the worker's own  *)
(* status_mutex                                                            *)
(* ---------------------------------------------------------------------- *)

(* a pause that leaves a BLOCKED worker as it is *)
WorkerPauseStatusRunningOnly(s) == IF s = "RUNNING" THEN "PAUSED" ELSE s

(* worker_thread::pause_with_status_lock *)
WorkerPauseStatus(s) == IF s \in {"BLOCKED", "RUNNING"} THEN "PAUSED" ELSE s

(* a resume that marks the worker as waiting for a task *)
WorkerResumeStatusToBlocked(s) == IF s = "PAUSED" THEN "BLOCKED" ELSE s

(* worker_thread::resume_with_status_lock *)
WorkerResumeStatus(s) == IF s = "PAUSED" THEN "RUNNING" ELSE s

(* a terminate that stores TERMINATING whatever the status was *)
WorkerTerminateStatusAlways(s) == "TERMINATING"

(* worker_thread::terminate_with_status_lock *)
WorkerTerminateStatus(s) == IF s \in {"RUNNING", "BLOCKED", "PAUSED"} THEN "TERMINATING" ELSE s

(* resume and terminate release pause_sem exactly when the worker was PAUSED *)
ReleasesSem(s) == s = "PAUSED"

WorkerPauseOp(w) ==
    /\ wstatus_mutex[w] = NoOwner
    /\ wstatus' = [wstatus EXCEPT ![w] = WorkerPauseStatus(@)]
    /\ UNCHANGED pause_sem

WorkerResumeOp(w) ==
    /\ wstatus_mutex[w] = NoOwner
    /\ wstatus' = [wstatus EXCEPT ![w] = WorkerResumeStatus(@)]
    /\ IF ReleasesSem(wstatus[w])
       THEN \E n \in SemAfterRelease(pause_sem[w]) : pause_sem' = [pause_sem EXCEPT ![w] = n]
       ELSE UNCHANGED pause_sem

WorkerTerminateOp(w) ==
    /\ wstatus_mutex[w] = NoOwner
    /\ wstatus' = [wstatus EXCEPT ![w] = WorkerTerminateStatus(@)]
    /\ IF ReleasesSem(wstatus[w])
       THEN \E n \in SemAfterRelease(pause_sem[w]) : pause_sem' = [pause_sem EXCEPT ![w] = n]
       ELSE UNCHANGED pause_sem

(* ---------------------------------------------------------------------- *)
(* thread_pool::pause / resume / terminate / shutdown_now / ~thread_pool   *)
(* ---------------------------------------------------------------------- *)

(* callers inside wait(), which holds status_mutex shared from its first   *)
(* line to its return                                                      *)
StatusReaders == {c \in Clients : cop[c] = "wait"}

(* status_mutex can be locked exclusively: no owner and no reader *)
StatusFree == status_mutex = NoOwner /\ StatusReaders = {}

(* a public call returns: the exclusive status lock is released *)
Return(c) ==
    /\ cpc' = [cpc EXCEPT ![c] = "idle"]
    /\ cop' = [cop EXCEPT ![c] = "none"]
    /\ status_mutex' = NoOwner
    /\ ci' = [ci EXCEPT ![c] = 0]
    /\ UNCHANGED cret

(* a pause that is applied to every pool not yet PAUSED *)
PauseAppliesUnlessPaused(s) == s # "PAUSED"

(* pause_with_status_lock lines 51-63: the status in which pause() acts *)
PauseApplies(s) == s = "RUNNING"

(* a resume that restarts every pool that is not RUNNING *)
ResumeAppliesUnlessRunning(s) == s # "RUNNING"

(* resume_with_status_lock lines 83-95: the status in which resume() stores *)
(* RUNNING                                                                 *)
ResumeApplies(s) == s = "PAUSED"

(* resume_with_status_lock lines 83-95: the statuses in which resume()     *)
(* goes on to the worker loop                                              *)
ResumeBroadcasts(s) == ResumeApplies(s) \/ s = "SHUTDOWN"

(* lines 53-57 of pause_with_status_lock and 85-88 of                      *)
(* resume_with_status_lock: nothing to do, the call returns                *)
NoOpReturn(c) ==
    /\ cpc[c] \in {"p_return", "r_return"}
    /\ Return(c)
    /\ UNCHANGED <<status, max_task_count, worker_list, workerVars, taskVars,
                   task_queue, queueLocks, clast, cargs, accepted, deq_log,
                   joined, pauses, list_at_call, wstatus_mutex>>

(* thread_pool::pause: status_mutex is locked, lines 51-63 of              *)
(* pause_with_status_lock run                                              *)
PauseCallWithin(c, most) ==
    /\ c = Admin
    /\ PoolAlive
    /\ cpc[c] = "idle"
    /\ StatusFree
    /\ status_mutex' = c
    /\ cop' = [cop EXCEPT ![c] = "pause"]
    /\ IF PauseApplies(status)
       THEN /\ pauses < most
            /\ pauses' = pauses + 1
            /\ status' = "PAUSED"
            /\ cpc' = [cpc EXCEPT ![c] = "p_loop"]
            /\ ci' = [ci EXCEPT ![c] = 1]
       ELSE /\ cpc' = [cpc EXCEPT ![c] = "p_return"]
            /\ UNCHANGED <<status, ci, pauses>>
    /\ UNCHANGED <<max_task_count, worker_list, workerVars, taskVars, task_queue,
                   queueLocks, clast, cargs, cret, accepted, deq_log, joined,
                   list_at_call, wstatus_mutex>>

PauseCall(c) == PauseCallWithin(c, MaxPauses)

(* lines 64-69: worker.pause() for the next worker of the list, or return *)
PauseLoop(c) ==
    /\ cpc[c] = "p_loop"
    /\ IF ci[c] <= Len(worker_list)
       THEN /\ WorkerPauseOp(worker_list[ci[c]])
            /\ ci' = [ci EXCEPT ![c] = @ + 1]
            /\ UNCHANGED <<cpc, cop, cret, status_mutex>>
       ELSE /\ Return(c)
            /\ UNCHANGED <<wstatus, pause_sem>>
    /\ UNCHANGED <<status, max_task_count, worker_list, wpc, wtask, taskVars,
                   task_queue, queueLocks, clast, cargs, accepted, deq_log,
                   joined, pauses, list_at_call, wstatus_mutex>>

(* thread_pool::resume: status_mutex is locked, lines 83-95 of             *)
(* resume_with_status_lock run                                             *)
ResumeCall(c) ==
    /\ c = Admin
    /\ PoolAlive
    /\ cpc[c] = "idle"
    /\ StatusFree
    /\ status_mutex' = c
    /\ cop' = [cop EXCEPT ![c] = "resume"]
    /\ IF ResumeBroadcasts(status)
       THEN /\ status' = IF ResumeApplies(status) THEN "RUNNING" ELSE status
            /\ cpc' = [cpc EXCEPT ![c] = "r_loop"]
            /\ ci' = [ci EXCEPT ![c] = 1]
       ELSE /\ cpc' = [cpc EXCEPT ![c] = "r_return"]
            /\ UNCHANGED <<status, ci>>
    /\ UNCHANGED <<max_task_count, worker_list, workerVars, taskVars, task_queue,
                   queueLocks, clast, cargs, cret, accepted, deq_log, joined, pauses, list_at_call, wstatus_mutex>>

(* lines 96-101: worker.resume() for the next worker of the list, or return *)
ResumeLoop(c) ==
    /\ cpc[c] = "r_loop"
    /\ IF ci[c] <= Len(worker_list)
       THEN /\ WorkerResumeOp(worker_list[ci[c]])
            /\ ci' = [ci EXCEPT ![c] = @ + 1]
            /\ UNCHANGED <<status, cpc, cop, cret, status_mutex>>
       ELSE /\ IF cop[c] = "shutdown"
               THEN /\ status' = "SHUTDOWN"
                    /\ cpc' = [cpc EXCEPT ![c] = "sd_lock"]
                    /\ ci' = [ci EXCEPT ![c] = 0]
                    /\ UNCHANGED <<cop, cret, status_mutex>>
               ELSE /\ Return(c)
                    /\ UNCHANGED status
            /\ UNCHANGED <<wstatus, pause_sem>>
    /\ UNCHANGED <<max_task_count, worker_list, wpc, wtask, taskVars,
                   task_queue, queueLocks, clast, cargs, accepted, deq_log,
                   joined, pauses, list_at_call, wstatus_mutex>>

(* thread_pool::shutdown: status_mutex is locked, lines 114-127 of         *)
(* shutdown_with_status_lock run; a PAUSED pool goes through               *)
(* resume_with_status_lock (line 121) before it becomes SHUTDOWN           *)
ShutdownCall(c) ==
    /\ c = Admin
    /\ PoolAlive
    /\ cpc[c] = "idle"
    /\ StatusFree
    /\ CASE status = "PAUSED" ->
              /\ status' = "RUNNING"
              /\ status_mutex' = c
              /\ cpc' = [cpc EXCEPT ![c] = "r_loop"]
              /\ cop' = [cop EXCEPT ![c] = "shutdown"]
              /\ ci' = [ci EXCEPT ![c] = 1]
         [] status = "RUNNING" ->
              /\ status' = "SHUTDOWN"
              /\ status_mutex' = c
              /\ cpc' = [cpc EXCEPT ![c] = "sd_lock"]
              /\ cop' = [cop EXCEPT ![c] = "shutdown"]
              /\ UNCHANGED ci
         [] OTHER ->
              /\ status_mutex' = c
              /\ cpc' = [cpc EXCEPT ![c] = "sd_return"]
              /\ cop' = [cop EXCEPT ![c] = "shutdown"]
              /\ UNCHANGED <<status, ci>>
    /\ UNCHANGED <<max_task_count, worker_list, workerVars, taskVars, task_queue,
                   queueLocks, clast, cargs, cret, accepted, deq_log, joined, pauses, list_at_call, wstatus_mutex>>

(* lines 116-119: a pool that is TERMINATED, TERMINATING or SHUTDOWN is    *)
(* left as it is and shutdown() returns                                    *)
ShutdownReturn(c) ==
    /\ cpc[c] = "sd_return"
    /\ Return(c)
    /\ UNCHANGED <<status, max_task_count, worker_list, workerVars, taskVars,
                   task_queue, queueLocks, clast, cargs, accepted, deq_log,
                   joined, pauses, list_at_call, wstatus_mutex>>

(* lines 128-133: the queue is locked shared; while it is not empty the    *)
(* caller waits on task_queue_empty_cv, which releases the lock; once it   *)
(* is empty terminate_with_status_lock starts with the shared lock held    *)
ShutdownLockQueue(c) ==
    /\ cpc[c] = "sd_lock"
    /\ QueueReadable
    /\ IF task_queue = <<>>
       THEN /\ status' = "TERMINATING"
            /\ queue_readers' = queue_readers \cup {c}
            /\ cpc' = [cpc EXCEPT ![c] = "t_loop"]
            /\ ci' = [ci EXCEPT ![c] = 1]
       ELSE /\ cpc' = [cpc EXCEPT ![c] = "sd_waiting"]
            /\ UNCHANGED <<status, queue_readers, ci>>
    /\ UNCHANGED <<max_task_count, worker_list, status_mutex, workerVars,
                   taskVars, task_queue, queue_mutex, cop, clast, cargs, cret,
                   accepted, deq_log, joined, pauses, list_at_call, wstatus_mutex>>

(* condition_variable_any::wait may return without a notification *)
SpuriousWakeEmpty(c) ==
    /\ cpc[c] = "sd_waiting"
    /\ cpc' = [cpc EXCEPT ![c] = "sd_lock"]
    /\ UNCHANGED <<poolVars, workerVars, taskVars, task_queue, queueLocks,
                   cop, ci, clast, cargs, cret, accepted, deq_log, joined, pauses, list_at_call, wstatus_mutex>>

(* thread_pool::wait: status_mutex is locked shared, lines 149-160 of      *)
(* wait_with_status_lock run: a TERMINATED pool is not waited for          *)
WaitCall(c) ==
    /\ c \in Submitters
    /\ PoolAlive
    /\ cpc[c] = "idle"
    /\ status_mutex = NoOwner
    /\ cop' = [cop EXCEPT ![c] = "wait"]
    /\ cpc' = [cpc EXCEPT ![c] = IF status = "TERMINATED" THEN "w_return" ELSE "w_lock"]
    /\ UNCHANGED <<poolVars, workerVars, taskVars, task_queue, queueLocks,
                   ci, clast, cargs, cret, accepted, deq_log, joined, pauses,
                   list_at_call, wstatus_mutex>>

(* wait() returns: both shared locks are released *)
WaitDone(c) ==
    /\ cpc' = [cpc EXCEPT ![c] = "idle"]
    /\ cop' = [cop EXCEPT ![c] = "none"]

(* lines 151-152: return of a wait() on a TERMINATED pool *)
WaitReturn(c) ==
    /\ cpc[c] = "w_return"
    /\ WaitDone(c)
    /\ UNCHANGED <<poolVars, workerVars, taskVars, task_queue, queueLocks,
                   ci, clast, cargs, cret, accepted, deq_log, joined, pauses,
                   list_at_call, wstatus_mutex>>

(* lines 161-166: the queue is locked shared; while it is not empty the    *)
(* caller waits on task_queue_empty_cv, which releases the lock; once it   *)
(* is empty wait() returns                                                 *)
WaitLockQueue(c) ==
    /\ cpc[c] = "w_lock"
    /\ QueueReadable
    /\ IF task_queue = <<>>
       THEN WaitDone(c)
       ELSE /\ cpc' = [cpc EXCEPT ![c] = "w_waiting"]
            /\ UNCHANGED cop
    /\ UNCHANGED <<poolVars, workerVars, taskVars, task_queue, queueLocks,
                   ci, clast, cargs, cret, accepted, deq_log, joined, pauses,
                   list_at_call, wstatus_mutex>>

(* condition_variable_any::wait may return without a notification *)
SpuriousWakeWait(c) ==
    /\ cpc[c] = "w_waiting"
    /\ cpc' = [cpc EXCEPT ![c] = "w_lock"]
    /\ UNCHANGED <<poolVars, workerVars, taskVars, task_queue, queueLocks,
                   cop, ci, clast, cargs, cret, accepted, deq_log, joined, pauses,
                   list_at_call, wstatus_mutex>>

WaitStep(c) ==
    \/ WaitReturn(c)
    \/ WaitLockQueue(c)

(* thread_pool::terminate, thread_pool::shutdown_now and the terminate()   *)
(* of ~thread_pool: status_mutex is locked, lines 186-199 of               *)
(* terminate_with_status_lock run.  ops is what the caller may be doing:   *)
(* "terminate" for the two public calls, "destroy" for the destructor,     *)
(* which runs when no other call is inside the pool.                       *)
TerminateCall(c, ops) ==
    /\ c = Admin
    /\ PoolAlive
    /\ cpc[c] = "idle"
    /\ StatusFree
    /\ \E op \in ops :
         /\ op = "destroy" => NoCallInProgress
         /\ IF status = "TERMINATED"
            THEN IF op = "destroy"
                 THEN /\ cpc' = [cpc EXCEPT ![c] = "d_term"]
                      /\ cop' = [cop EXCEPT ![c] = op]
                      /\ ci' = [ci EXCEPT ![c] = 1]
                      /\ UNCHANGED <<status, status_mutex>>
                 ELSE /\ UNCHANGED <<status, status_mutex, cpc, cop, ci>>
            ELSE /\ status' = "TERMINATING"
                 /\ status_mutex' = c
                 /\ cpc' = [cpc EXCEPT ![c] = "t_loop"]
                 /\ cop' = [cop EXCEPT ![c] = op]
                 /\ ci' = [ci EXCEPT ![c] = 1]
    /\ UNCHANGED <<max_task_count, worker_list, workerVars, taskVars, task_queue,
                   queueLocks, clast, cargs, cret, accepted, deq_log, joined, pauses, list_at_call, wstatus_mutex>>

(* lines 200-204: worker.terminate() for the next worker of the list *)
TerminateLoop(c) ==
    /\ cpc[c] = "t_loop"
    /\ IF ci[c] <= Len(worker_list)
       THEN /\ WorkerTerminateOp(worker_list[ci[c]])
            /\ ci' = [ci EXCEPT ![c] = @ + 1]
            /\ UNCHANGED cpc
       ELSE /\ cpc' = [cpc EXCEPT ![c] = "t_finish"]
            /\ UNCHANGED <<ci, wstatus, pause_sem>>
    /\ UNCHANGED <<poolVars, wpc, wtask, taskVars, task_queue, queueLocks,
                   cop, clast, cargs, cret, accepted, deq_log, joined, pauses, list_at_call, wstatus_mutex>>

(* lines 205-207: task_queue_cv.notify_all(), the status becomes           *)
(* TERMINATED, the call returns (a shutdown() drops its shared queue lock); *)
(* a destructor goes on to destroy the list                                *)
TerminateFinish(c) ==
    /\ cpc[c] = "t_finish"
    /\ wpc' = NotifyAll(wpc)
    /\ status' = "TERMINATED"
    /\ status_mutex' = NoOwner
    /\ queue_readers' = queue_readers \ {c}
    /\ IF cop[c] = "destroy"
       THEN /\ cpc' = [cpc EXCEPT ![c] = "d_term"]
            /\ ci' = [ci EXCEPT ![c] = 1]
            /\ UNCHANGED cop
       ELSE /\ cpc' = [cpc EXCEPT ![c] = "idle"]
            /\ cop' = [cop EXCEPT ![c] = "none"]
            /\ ci' = [ci EXCEPT ![c] = 0]
    /\ UNCHANGED <<max_task_count, worker_list, wstatus, pause_sem, wtask,
                   taskVars, task_queue, queue_mutex, clast, cargs, cret, accepted,
                   deq_log, joined, pauses, list_at_call, wstatus_mutex>>

(* the queue is destroyed with the pool: a packaged_task destroyed before   *)
(* it ran stores broken_promise in the shared state of its future          *)
Abandon(res, q) ==
    [t \in TaskIds |-> IF \E i \in 1..Len(q) : q[i] = t THEN BrokenPromise ELSE res[t]]

(* ~worker_thread line 161: last_status = terminate(); after the last      *)
(* worker the remaining members of the pool are destroyed                  *)
DestroyTerminate(c) ==
    /\ cpc[c] = "d_term"
    /\ IF ci[c] <= Len(worker_list)
       THEN /\ WorkerTerminateOp(worker_list[ci[c]])
            /\ clast' = [clast EXCEPT ![c] = wstatus[worker_list[ci[c]]]]
            /\ cpc' = [cpc EXCEPT ![c] = "d_notify"]
            /\ UNCHANGED <<result, task_queue>>
       ELSE /\ cpc' = [cpc EXCEPT ![c] = "destroyed"]
            /\ result' = Abandon(result, task_queue)
            /\ task_queue' = <<>>
            /\ UNCHANGED <<clast, wstatus, pause_sem>>
    /\ UNCHANGED <<poolVars, wpc, wtask, targs, exec_count, queueLocks,
                   cop, ci, cargs, cret, accepted, deq_log, joined, pauses, list_at_call, wstatus_mutex>>

(* ~worker_thread lines 162-167: notify_all when the worker was BLOCKED *)
DestroyNotify(c) ==
    /\ cpc[c] = "d_notify"
    /\ wpc' = IF clast[c] = "BLOCKED" THEN NotifyAll(wpc) ELSE wpc
    /\ cpc' = [cpc EXCEPT ![c] = "d_join"]
    /\ UNCHANGED <<poolVars, wstatus, pause_sem, wtask, taskVars, task_queue,
                   queueLocks, cop, ci, clast, cargs, cret, accepted, deq_log,
                   joined, pauses, list_at_call, wstatus_mutex>>

(* ~worker_thread line 168: thread.join() returns once the thread body has *)
(* returned                                                                *)
DestroyJoin(c) ==
    /\ cpc[c] = "d_join"
    /\ wpc[worker_list[ci[c]]] = "exited"
    /\ joined' = joined \cup {worker_list[ci[c]]}
    /\ ci' = [ci EXCEPT ![c] = @ + 1]
    /\ cpc' = [cpc EXCEPT ![c] = "d_term"]
    /\ UNCHANGED <<poolVars, workerVars, taskVars, task_queue, queueLocks,
                   cop, clast, cargs, cret, accepted, deq_log, pauses, list_at_call, wstatus_mutex>>

(* ---------------------------------------------------------------------- *)
(* thread_pool::add_thread / remove_thread, each under the shared status   *)
(* lock and the exclusive worker_list lock; they are called by the one     *)
(* administrative thread, which makes no other call meanwhile              *)
(* ---------------------------------------------------------------------- *)

(* an add_thread that also rejects a RUNNING pool *)
RejectsResizeAndRunning(s) == s # "SHUTDOWN"

(* the switch of add_thread (lines 259-270) and of remove_thread (lines    *)
(* 288-299): the statuses in which the call throws                         *)
RejectsResize(s) == s \in {"TERMINATED", "TERMINATING", "PAUSED"}

(* workers are numbered in the order of their construction *)
NextWorkerId == 1 + Cardinality({w \in WorkerIds : wpc[w] # "none"})

(* a removal that takes every worker *)
CountToRemoveAll(n, size) == size

(* line 301: count_to_remove = std::min(count_to_remove, worker_list.size()) *)
CountToRemove(n, size) == IF n < size THEN n ELSE size

(* std::list::erase of the element at index i *)
EraseAt(l, i) == SubSeq(l, 1, i - 1) \o SubSeq(l, i + 1, Len(l))

(* an add_thread or remove_thread call ends: the locks are released *)
ResizeReturn(c, how) ==
    /\ cpc' = [cpc EXCEPT ![c] = "idle"]
    /\ cop' = [cop EXCEPT ![c] = "none"]
    /\ status_mutex' = NoOwner
    /\ ci' = [ci EXCEPT ![c] = 0]
    /\ cargs' = [cargs EXCEPT ![c] = <<0, 0>>]
    /\ cret' = [cret EXCEPT ![c] = how]

(* thread_pool::add_thread(n): the status lock is taken, lines 259-270 run *)
AddThreadCall(c, n) ==
    /\ c = Admin
    /\ PoolAlive
    /\ cpc[c] = "idle"
    /\ status_mutex = NoOwner
    /\ status_mutex' = c
    /\ cop' = [cop EXCEPT ![c] = "add_thread"]
    /\ cargs' = [cargs EXCEPT ![c] = <<n>>]
    /\ IF RejectsResize(status)
       THEN cpc' = [cpc EXCEPT ![c] = "add_throw"]
       ELSE /\ NextWorkerId + n - 1 <= MaxWorkers
            /\ cpc' = [cpc EXCEPT ![c] = "add_emplace"]
    /\ UNCHANGED <<status, max_task_count, worker_list, workerVars, taskVars,
                   task_queue, queueLocks, ci, clast, cret, accepted, deq_log,
                   joined, pauses, list_at_call, wstatus_mutex>>

(* line 263: the call throws *)
AddThrow(c) ==
    /\ cpc[c] = "add_throw"
    /\ ResizeReturn(c, "cannot_add")
    /\ UNCHANGED <<status, max_task_count, worker_list, workerVars, taskVars,
                   task_queue, queueLocks, clast, accepted, deq_log, joined,
                   pauses, list_at_call, wstatus_mutex>>

(* lines 271-275: n workers are emplaced at the back of the list, each     *)
(* starting its thread at the head of the loop with status RUNNING         *)
AddEmplace(c) ==
    /\ cpc[c] = "add_emplace"
    /\ worker_list' = worker_list \o [i \in 1..cargs[c][1] |-> NextWorkerId + i - 1]
    /\ wpc' = [w \in WorkerIds |->
                 IF w \in NextWorkerId..(NextWorkerId + cargs[c][1] - 1)
                 THEN "top" ELSE wpc[w]]
    /\ ResizeReturn(c, "added")
    /\ UNCHANGED <<status, max_task_count, wstatus, pause_sem, wtask, taskVars,
                   task_queue, queueLocks, clast, accepted, deq_log, joined,
                   pauses, list_at_call, wstatus_mutex>>

(* thread_pool::remove_thread(n): the status lock is taken, lines 288-299  *)
(* run; it = worker_list.end()                                             *)
RemoveThreadCall(c, n) ==
    /\ c = Admin
    /\ PoolAlive
    /\ cpc[c] = "idle"
    /\ status_mutex = NoOwner
    /\ status_mutex' = c
    /\ cop' = [cop EXCEPT ![c] = "remove_thread"]
    /\ cargs' = [cargs EXCEPT ![c] = <<n>>]
    /\ list_at_call' = worker_list
    /\ UNCHANGED wstatus_mutex
    /\ IF RejectsResize(status)
       THEN /\ cpc' = [cpc EXCEPT ![c] = "rm_throw"]
            /\ UNCHANGED ci
       ELSE /\ cpc' = [cpc EXCEPT ![c] = "rm_term"]
            /\ ci' = [ci EXCEPT ![c] = Len(worker_list) + 1]
    /\ UNCHANGED <<status, max_task_count, worker_list, workerVars, taskVars,
                   task_queue, queueLocks, clast, cret, accepted, deq_log, joined,
                   pauses>>

(* a remove_thread call ends: the locks are released *)
RemoveReturn(c, how) == ResizeReturn(c, how)

(* line 293: the call throws *)
RemoveThrow(c) ==
    /\ cpc[c] = "rm_throw"
    /\ RemoveReturn(c, "cannot_remove")
    /\ UNCHANGED <<status, max_task_count, worker_list, workerVars, taskVars,
                   task_queue, queueLocks, clast, accepted, deq_log, joined,
                   pauses, list_at_call, wstatus_mutex>>

(* lines 303-307: --it; it->terminate(), count_to_remove times *)
RemoveTerminate(c) ==
    /\ cpc[c] = "rm_term"
    /\ IF Len(worker_list) + 1 - ci[c] < CountToRemove(cargs[c][1], Len(worker_list))
       THEN /\ WorkerTerminateOp(worker_list[ci[c] - 1])
            /\ ci' = [ci EXCEPT ![c] = @ - 1]
            /\ UNCHANGED cpc
       ELSE /\ cpc' = [cpc EXCEPT ![c] = "rm_notify"]
            /\ UNCHANGED <<ci, wstatus, pause_sem>>
    /\ UNCHANGED <<poolVars, wpc, wtask, taskVars, task_queue, queueLocks,
                   cop, clast, cargs, cret, accepted, deq_log, joined, pauses,
                   list_at_call, wstatus_mutex>>

(* line 308: task_queue_cv.notify_all() *)
RemoveNotify(c) ==
    /\ cpc[c] = "rm_notify"
    /\ wpc' = NotifyAll(wpc)
    /\ cpc' = [cpc EXCEPT ![c] = "rm_erase"]
    /\ UNCHANGED <<poolVars, wstatus, pause_sem, wtask, taskVars, task_queue,
                   queueLocks, cop, ci, clast, cargs, cret, accepted, deq_log,
                   joined, pauses, list_at_call, wstatus_mutex>>

(* line 309: erase(it, end) destroys the element at it, ~worker_thread     *)
(* line 161: last_status = terminate(); past the last element the call     *)
(* returns                                                                 *)
RemoveErase(c) ==
    /\ cpc[c] = "rm_erase"
    /\ IF ci[c] <= Len(worker_list)
       THEN /\ WorkerTerminateOp(worker_list[ci[c]])
            /\ clast' = [clast EXCEPT ![c] = wstatus[worker_list[ci[c]]]]
            /\ cpc' = [cpc EXCEPT ![c] = "rm_dnotify"]
            /\ UNCHANGED <<status_mutex, cop, ci, cargs, cret>>
       ELSE /\ RemoveReturn(c, "removed")
            /\ UNCHANGED <<clast, wstatus, pause_sem>>
    /\ UNCHANGED <<status, max_task_count, worker_list, wpc, wtask, taskVars,
                   task_queue, queueLocks, accepted, deq_log, joined, pauses,
                   list_at_call, wstatus_mutex>>

(* ~worker_thread lines 162-167: notify_all when the worker was BLOCKED *)
RemoveDestroyNotify(c) ==
    /\ cpc[c] = "rm_dnotify"
    /\ wpc' = IF clast[c] = "BLOCKED" THEN NotifyAll(wpc) ELSE wpc
    /\ cpc' = [cpc EXCEPT ![c] = "rm_join"]
    /\ UNCHANGED <<poolVars, wstatus, pause_sem, wtask, taskVars, task_queue,
                   queueLocks, cop, ci, clast, cargs, cret, accepted, deq_log,
                   joined, pauses, list_at_call, wstatus_mutex>>

(* ~worker_thread line 168: thread.join() returns once the thread body has *)
(* returned; the element is gone from the list and erase goes on to the    *)
(* next one                                                                *)
RemoveJoin(c) ==
    /\ cpc[c] = "rm_join"
    /\ wpc[worker_list[ci[c]]] = "exited"
    /\ joined' = joined \cup {worker_list[ci[c]]}
    /\ worker_list' = EraseAt(worker_list, ci[c])
    /\ cpc' = [cpc EXCEPT ![c] = "rm_erase"]
    /\ UNCHANGED <<status, max_task_count, status_mutex, workerVars, taskVars,
                   task_queue, queueLocks, cop, ci, clast, cargs, cret, accepted,
                   deq_log, pauses, list_at_call, wstatus_mutex>>

(* the steps of a remove_thread that was not rejected *)
RemoveAccepted(c) ==
    \/ RemoveTerminate(c)
    \/ RemoveNotify(c)
    \/ RemoveErase(c)
    \/ RemoveDestroyNotify(c)
    \/ RemoveJoin(c)

(* pause() called on a pool in which it acts; a pause() that finds nothing *)
(* to do changes no state                                                  *)
PauseCallActing(c) == PauseApplies(status) /\ PauseCall(c)

(* resume() called on a pool in which it acts *)
ResumeCallActing(c) == ResumeBroadcasts(status) /\ ResumeCall(c)

(* the steps of a caller inside a public call *)
LiveAdminStep(c) ==
    \/ PauseLoop(c)
    \/ ResumeLoop(c)
    \/ ShutdownLockQueue(c)
    \/ ShutdownReturn(c)
    \/ TerminateLoop(c)
    \/ TerminateFinish(c)

(* the steps of a caller inside a public call or the destructor *)
AdminStep(c) ==
    \/ LiveAdminStep(c)
    \/ NoOpReturn(c)
    \/ DestroyTerminate(c)
    \/ DestroyNotify(c)
    \/ DestroyJoin(c)

(* every public call on a pool that is not destroyed; of pause() and       *)
(* resume() the calls that act                                             *)
Next ==
    \/ \E w \in WorkerIds : WorkerStep(w)
    \/ \E w \in WorkerIds : SpuriousWake(w)
    \/ \E c \in Clients : SubmitCall(c, OneArgPair)
    \/ \E c \in Clients : SubmitStep(c)
    \/ \E c \in Clients : PauseCallActing(c)
    \/ \E c \in Clients : ResumeCallActing(c)
    \/ \E c \in Clients : ShutdownCall(c)
    \/ \E c \in Clients : SpuriousWakeEmpty(c)
    \/ \E c \in Clients : TerminateCall(c, {"terminate"})
    \/ \E c \in Clients : LiveAdminStep(c)

Spec == Init /\ [][Next]_vars

(* ---------------------------------------------------------------------- *)
(* a pool that only receives submissions: no administrative call is made   *)
(* ---------------------------------------------------------------------- *)

RunWorkerStep(w) ==
    \/ WorkerTop(w)
    \/ WorkerLockQueue(w)
    \/ WorkerPreWait(w)
    \/ WorkerWait(w)
    \/ WorkerPostWait(w)
    \/ WorkerDequeue(w)
    \/ WorkerRun(w)

RunNext ==
    \/ \E w \in WorkerIds : RunWorkerStep(w)
    \/ \E w \in WorkerIds : SpuriousWake(w)
    \/ \E c \in Clients : SubmitCall(c, ArgPairs)
    \/ \E c \in Clients : SubmitStep(c)

(* every thread that can take a step eventually takes one; a caller is     *)
(* free never to call, and a wait is never woken spuriously by obligation  *)
RunFairness ==
    /\ \A w \in WorkerIds : WF_vars(RunWorkerStep(w))
    /\ \A c \in Clients : WF_vars(SubmitStep(c))

FairRun == Init /\ [][RunNext]_vars /\ RunFairness

(* the same pool given callables that throw as well as callables that      *)
(* return                                                                  *)
FailNext ==
    \/ \E w \in WorkerIds : RunWorkerStep(w)
    \/ \E w \in WorkerIds : SpuriousWake(w)
    \/ \E c \in Clients : SubmitCall(c, FailCallables)
    \/ \E c \in Clients : SubmitStep(c)

FairFail == Init /\ [][FailNext]_vars /\ RunFairness

(* ---------------------------------------------------------------------- *)
(* a pool that is submitted to and then terminated or destroyed            *)
(* ---------------------------------------------------------------------- *)

TermNext ==
    \/ \E w \in WorkerIds : RunWorkerStep(w)
    \/ \E w \in WorkerIds : SpuriousWake(w)
    \/ \E c \in Clients : SubmitCall(c, OneArgPair)
    \/ \E c \in Clients : SubmitStep(c)
    \/ \E c \in Clients : TerminateCall(c, {"terminate", "destroy"})
    \/ \E c \in Clients : TerminateLoop(c)
    \/ \E c \in Clients : TerminateFinish(c)
    \/ \E c \in Clients : DestroyTerminate(c)
    \/ \E c \in Clients : DestroyNotify(c)
    \/ \E c \in Clients : DestroyJoin(c)

(* a caller inside a call goes on whenever it can *)
AdminFairness == \A c \in Clients : WF_vars(AdminStep(c))

FairTerm == Init /\ [][TermNext]_vars /\ RunFairness /\ AdminFairness

(* ---------------------------------------------------------------------- *)
(* a pool that is submitted to, paused and resumed                         *)
(* ---------------------------------------------------------------------- *)

PauseNext ==
    \/ \E w \in WorkerIds : WorkerStep(w)
    \/ \E w \in WorkerIds : SpuriousWake(w)
    \/ \E c \in Clients : SubmitCall(c, OneArgPair)
    \/ \E c \in Clients : SubmitStep(c)
    \/ \E c \in Clients : PauseCallActing(c)
    \/ \E c \in Clients : PauseLoop(c)
    \/ \E c \in Clients : ResumeCallActing(c)
    \/ \E c \in Clients : ResumeLoop(c)

WorkerFairness == \A w \in WorkerIds : WF_vars(WorkerStep(w))

SubmitFairness == \A c \in Clients : WF_vars(SubmitStep(c))

FairPause == Init /\ [][PauseNext]_vars /\ WorkerFairness /\ SubmitFairness /\ AdminFairness

(* ---------------------------------------------------------------------- *)
(* a pool that is submitted to and paused, and then shut down by a caller  *)
(* that makes no submission once it has called shutdown(); the runs in     *)
(* which no condition wait returns without a notification                  *)
(* ---------------------------------------------------------------------- *)

(* a submission made before shutdown() is called *)
SubmitBeforeShutdown(c) ==
    /\ \A d \in Clients : cop[d] # "shutdown"
    /\ SubmitCall(c, OneArgPair)

(* shutdown() called when every earlier submit() has returned *)
ShutdownAfterSubmits(c) ==
    /\ \A d \in Submitters : cpc[d] = "idle"
    /\ ShutdownCall(c)

ShutdownNext ==
    \/ \E w \in WorkerIds : WorkerStep(w)
    \/ \E c \in Clients : SubmitBeforeShutdown(c)
    \/ \E c \in Clients : SubmitStep(c)
    \/ \E c \in Clients : PauseCallActing(c)
    \/ \E c \in Clients : ShutdownAfterSubmits(c)
    \/ \E c \in Clients : LiveAdminStep(c)

FairShutdown == Init /\ [][ShutdownNext]_vars /\ WorkerFairness /\ SubmitFairness /\ AdminFairness

(* ---------------------------------------------------------------------- *)
(* every administrative call in every status, those that find nothing to   *)
(* do included, on a pool with one submitting thread                       *)
(* ---------------------------------------------------------------------- *)

FirstSubmitter == Admin + 1

AdminNext ==
    \/ \E w \in WorkerIds : WorkerStep(w)
    \/ \E w \in WorkerIds : SpuriousWake(w)
    \/ \E c \in {FirstSubmitter} : SubmitCall(c, OneArgPair)
    \/ \E c \in Clients : SubmitStep(c)
    \/ \E c \in Clients : PauseCall(c)
    \/ \E c \in Clients : ResumeCall(c)
    \/ \E c \in Clients : NoOpReturn(c)
    \/ \E c \in Clients : ShutdownCall(c)
    \/ \E c \in Clients : SpuriousWakeEmpty(c)
    \/ \E c \in Clients : TerminateCall(c, {"terminate"})
    \/ \E c \in Clients : LiveAdminStep(c)

AdminSpec == Init /\ [][AdminNext]_vars

(* ---------------------------------------------------------------------- *)
(* a pool whose workers are added and removed while it is submitted to,    *)
(* paused and terminated; it is not resumed                                *)
(* ---------------------------------------------------------------------- *)

RemoveNext ==
    \/ \E w \in WorkerIds : WorkerStep(w)
    \/ \E w \in WorkerIds : SpuriousWake(w)
    \/ \E c \in {FirstSubmitter} : SubmitCall(c, OneArgPair)
    \/ \E c \in Clients : SubmitStep(c)
    \/ \E c \in Clients : PauseCallActing(c)
    \/ \E c \in Clients : PauseLoop(c)
    \/ \E c \in Clients : TerminateCall(c, {"terminate"})
    \/ \E c \in Clients : TerminateLoop(c)
    \/ \E c \in Clients : TerminateFinish(c)
    \/ \E c \in Clients, n \in 1..MaxAdd : AddThreadCall(c, n)
    \/ \E c \in Clients : AddThrow(c)
    \/ \E c \in Clients : AddEmplace(c)
    \/ \E c \in Clients, n \in 1..MaxRemove : RemoveThreadCall(c, n)
    \/ \E c \in Clients : RemoveThrow(c)
    \/ \E c \in Clients : RemoveAccepted(c)

RemoveSpec == Init /\ [][RemoveNext]_vars

(* a RUNNING pool whose workers are added and removed while it is          *)
(* submitted to; the runs in which no condition wait returns without a     *)
(* notification, every thread that can take a step eventually taking one   *)
ResizeNext ==
    \/ \E w \in WorkerIds : RunWorkerStep(w)
    \/ \E c \in {FirstSubmitter} : SubmitCall(c, OneArgPair)
    \/ \E c \in Clients : SubmitStep(c)
    \/ \E c \in Clients, n \in 1..MaxAdd : AddThreadCall(c, n)
    \/ \E c \in Clients : AddEmplace(c)
    \/ \E c \in Clients, n \in 1..MaxRemove : RemoveThreadCall(c, n)
    \/ \E c \in Clients : RemoveAccepted(c)

RemoveFairness == \A c \in Clients : WF_vars(RemoveAccepted(c) \/ AddEmplace(c))

FairResize == Init /\ [][ResizeNext]_vars /\ RunFairness /\ RemoveFairness

(* ---------------------------------------------------------------------- *)
(* a pool that receives submissions while its bound is set                 *)
(* ---------------------------------------------------------------------- *)

BoundNext ==
    \/ \E w \in WorkerIds : RunWorkerStep(w)
    \/ \E w \in WorkerIds : SpuriousWake(w)
    \/ \E c \in Clients : SubmitCall(c, OneArgPair)
    \/ \E c \in Clients : SubmitStep(c)
    \/ \E c \in Clients, n \in 0..MaxSet : SetMaxTaskCount(c, n)

BoundSpec == Init /\ [][BoundNext]_vars

(* ---------------------------------------------------------------------- *)
(* one thread submits tasks and then waits for them, as main() of          *)
(* tests/performance_test.cpp does, while another pauses, resumes and      *)
(* terminates the pool                                                     *)
(* ---------------------------------------------------------------------- *)

WaitNext ==
    \/ \E w \in WorkerIds : WorkerStep(w)
    \/ \E w \in WorkerIds : SpuriousWake(w)
    \/ \E c \in {FirstSubmitter} : SubmitCall(c, OneArgPair)
    \/ \E c \in Clients : SubmitStep(c)
    \/ \E c \in {FirstSubmitter} : WaitCall(c)
    \/ \E c \in Clients : WaitStep(c)
    \/ \E c \in Clients : SpuriousWakeWait(c)
    \/ \E c \in Clients : PauseCallActing(c)
    \/ \E c \in Clients : PauseLoop(c)
    \/ \E c \in Clients : ResumeCallActing(c)
    \/ \E c \in Clients : ResumeLoop(c)
    \/ \E c \in Clients : TerminateCall(c, {"terminate"})
    \/ \E c \in Clients : TerminateLoop(c)
    \/ \E c \in Clients : TerminateFinish(c)

WaitSpec == Init /\ [][WaitNext]_vars

(* the same thread submitting and waiting on a pool that stays RUNNING,   *)
(* every thread that can take a step eventually taking one; the runs in    *)
(* which no worker's wait returns without a notification                   *)
DrainNext ==
    \/ \E w \in WorkerIds : RunWorkerStep(w)
    \/ \E c \in {FirstSubmitter} : SubmitCall(c, OneArgPair)
    \/ \E c \in Clients : SubmitStep(c)
    \/ \E c \in {FirstSubmitter} : WaitCall(c)
    \/ \E c \in Clients : WaitLockQueue(c)
    \/ \E c \in Clients : SpuriousWakeWait(c)

WaitFairness == \A c \in Clients : WF_vars(WaitStep(c))

FairDrain == Init /\ [][DrainNext]_vars /\ RunFairness /\ WaitFairness

(* one thread submitting and waiting while another pauses and resumes the  *)
(* pool: every thread that can take a step eventually takes one, and a     *)
(* resume() that can lock status_mutex is eventually called                *)
HoldNext ==
    \/ \E w \in WorkerIds : WorkerStep(w)
    \/ \E c \in {FirstSubmitter} : SubmitCall(c, OneArgPair)
    \/ \E c \in Clients : SubmitStep(c)
    \/ \E c \in {FirstSubmitter} : WaitCall(c)
    \/ \E c \in Clients : WaitLockQueue(c)
    \/ \E c \in Clients : SpuriousWakeWait(c)
    \/ \E c \in Clients : PauseCallActing(c)
    \/ \E c \in Clients : PauseLoop(c)
    \/ \E c \in Clients : ResumeCallActing(c)
    \/ \E c \in Clients : ResumeLoop(c)

(* a pool that is submitted to, paused, resumed and paused again, and     *)
(* terminated                                                              *)
PauseCallRepeated(c) == PauseApplies(status) /\ PauseCallWithin(c, MaxRepeat)

RepeatNext ==
    \/ \E w \in WorkerIds : WorkerStep(w)
    \/ \E c \in {FirstSubmitter} : SubmitCall(c, OneArgPair)
    \/ \E c \in Clients : SubmitStep(c)
    \/ \E c \in Clients : PauseCallRepeated(c)
    \/ \E c \in Clients : PauseLoop(c)
    \/ \E c \in Clients : ResumeCallActing(c)
    \/ \E c \in Clients : ResumeLoop(c)
    \/ \E c \in Clients : TerminateCall(c, {"terminate"})
    \/ \E c \in Clients : TerminateLoop(c)
    \/ \E c \in Clients : TerminateFinish(c)

RepeatSpec == Init /\ [][RepeatNext]_vars

(* the whole life of a pool: it is submitted to, paused, resumed,          *)
(* terminated and destroyed, ~worker_thread terminating each worker again  *)
LifeNext ==
    \/ \E w \in WorkerIds : WorkerStep(w)
    \/ \E w \in WorkerIds : SpuriousWake(w)
    \/ \E c \in {FirstSubmitter} : SubmitCall(c, OneArgPair)
    \/ \E c \in Clients : SubmitStep(c)
    \/ \E c \in Clients : PauseCallActing(c)
    \/ \E c \in Clients : PauseLoop(c)
    \/ \E c \in Clients : ResumeCallActing(c)
    \/ \E c \in Clients : ResumeLoop(c)
    \/ \E c \in Clients : TerminateCall(c, {"terminate", "destroy"})
    \/ \E c \in Clients : TerminateLoop(c)
    \/ \E c \in Clients : TerminateFinish(c)
    \/ \E c \in Clients : DestroyTerminate(c)
    \/ \E c \in Clients : DestroyNotify(c)
    \/ \E c \in Clients : DestroyJoin(c)

LifeSpec == Init /\ [][LifeNext]_vars

(* a pool that is submitted to, paused, resumed and terminated, each       *)
(* worker taking its own status lock as a step of its own before a switch  *)
LockNext ==
    \/ \E w \in WorkerIds : WorkerStep(w)
    \/ \E w \in WorkerIds : WorkerLockStatus(w)
    \/ \E w \in WorkerIds : SpuriousWake(w)
    \/ \E c \in {FirstSubmitter} : SubmitCall(c, OneArgPair)
    \/ \E c \in Clients : SubmitStep(c)
    \/ \E c \in Clients : PauseCallActing(c)
    \/ \E c \in Clients : PauseLoop(c)
    \/ \E c \in Clients : ResumeCallActing(c)
    \/ \E c \in Clients : ResumeLoop(c)
    \/ \E c \in Clients : TerminateCall(c, {"terminate"})
    \/ \E c \in Clients : TerminateLoop(c)
    \/ \E c \in Clients : TerminateFinish(c)

LockSpec == Init /\ [][LockNext]_vars

ResumeFairness == \A c \in Clients : WF_vars(ResumeCallActing(c))

FairHold ==
    /\ Init /\ [][HoldNext]_vars
    /\ WorkerFairness /\ SubmitFairness /\ WaitFairness /\ AdminFairness
    /\ ResumeFairness

(* ---------------------------------------------------------------------- *)
(* properties                                                              *)
(* ---------------------------------------------------------------------- *)

RECURSIVE SumExec(_)
SumExec(n) == IF n = 0 THEN 0 ELSE exec_count[n] + SumExec(n - 1)

(* the shared counter of a counter-incrementing task: one increment per run *)
Counter == SumExec(MaxTasks)

(* every accepted task has been popped and no popped task is still running *)
Drained == Len(deq_log) = accepted /\ \A w \in WorkerIds : wtask[w] = NoTask

(* C1: a submit whose status load finds the pool not RUNNING returns an    *)
(* error to its caller and leaves the task queue, the pool status, every   *)
(* worker's status, wake semaphore and position unchanged.                 *)
C1_RejectedSubmitNoEffect ==
    [][\A c \in Submitters :
          (cpc[c] = "s_status" /\ cpc'[c] # "s_status" /\ status # "RUNNING")
          => /\ cpc'[c] = "idle"
             /\ cret'[c] \in NotAccepting
             /\ task_queue' = task_queue
             /\ accepted' = accepted
             /\ status' = status
             /\ wstatus' = wstatus
             /\ pause_sem' = pause_sem
             /\ wpc' = wpc]_vars

(* a submission has just been rejected by a paused pool that holds a task  *)
(* and a worker blocked on its semaphore                                   *)
C1_Witness ==
    /\ status = "PAUSED"
    /\ task_queue # <<>>
    /\ \E c \in Submitters : cret[c] = "paused" /\ cpc[c] = "idle"
    /\ \E w \in WorkerIds : wpc[w] = "sem_top"

(* C2: while the pool is PAUSED and no administrative call is in progress *)
(* (pause() has returned, resume() has not been called) no worker pops a   *)
(* task from the queue.                                                    *)
C2_NoDequeueWhilePaused ==
    [][(status = "PAUSED" /\ status_mutex = NoOwner)
          => \A w \in WorkerIds : ~(wpc[w] = "dequeue" /\ wpc'[w] = "run")]_vars

(* C3: once terminate() has returned, every worker thread of the pool      *)
(* eventually returns from its thread body.                                *)
C3_TerminatedWorkersExit ==
    (status = "TERMINATED") ~> (\A w \in WorkerIds : InList(w) => wpc[w] = "exited")

(* C4: once the pool is RUNNING again after its pause and resume, every    *)
(* accepted task is eventually executed and its result delivered (at least *)
(* one worker in the pool).                                                *)
C4_ExecutedAfterResume ==
    \A t \in TaskIds :
        (/\ Len(worker_list) >= 1
         /\ pauses = MaxPauses
         /\ status = "RUNNING"
         /\ status_mutex = NoOwner
         /\ accepted >= t)
            ~> (result[t] = add(targs[t][1], targs[t][2]))

(* C5: with a bound K > 0 the queue never holds more than K tasks.         *)
C5_QueueWithinBound ==
    max_task_count > 0 => Len(task_queue) <= max_task_count

(* accepted tasks that have not completed *)
Outstanding == accepted - Counter

(* C6: with a bound K > 0, a submit that reaches the capacity check while  *)
(* K accepted tasks have not completed is rejected with QueueFull.         *)
C6_FullUntilOneCompletes ==
    [][\A c \in Submitters :
          (/\ cpc[c] = "s_full"
           /\ cpc'[c] # "s_full"
           /\ max_task_count > 0
           /\ Outstanding >= max_task_count)
          => cret'[c] = "queue_full"]_vars

(* C7: once terminate() or shutdown_now() has returned, the result channel *)
(* of every task still in the queue is resolved.                           *)
C7_DiscardedResolved ==
    status = "TERMINATED"
        => \A i \in 1..Len(task_queue) : result[task_queue[i]] # NoResult

(* C8: in a pool with at least one worker that only receives submissions,  *)
(* every accepted task's result channel eventually holds the value of its  *)
(* own callable, add(a, b) of the arguments bound at submission.           *)
C8_EveryResultDelivered ==
    \A t \in TaskIds :
        (Len(worker_list) >= 1 /\ accepted >= t)
            ~> (result[t] = add(targs[t][1], targs[t][2]))

(* two tasks with different arguments, the second completed before the     *)
(* first                                                                   *)
C8_Witness ==
    /\ Len(worker_list) >= 1
    /\ accepted = 2
    /\ targs[1] # targs[2]
    /\ result[2] = add(targs[2][1], targs[2][2])
    /\ result[1] = NoResult

(* C9: no task is popped twice or run twice, and once every accepted task  *)
(* has been popped and run the counter equals the number of accepted tasks *)
C9_AtMostOnce ==
    /\ \A t \in TaskIds : exec_count[t] <= 1
    /\ \A i, j \in 1..Len(deq_log) : deq_log[i] = deq_log[j] => i = j
    /\ \A v, w \in WorkerIds : (v # w /\ wtask[v] # NoTask) => wtask[v] # wtask[w]
    /\ Drained => Counter = accepted

(* two workers, two accepted tasks, both run, the queue drained *)
C9_Witness ==
    /\ Len(worker_list) = 2
    /\ accepted = 2
    /\ Drained
    /\ Counter = 2
    /\ status = "RUNNING"

(* C10: tasks are popped in the order in which they were enqueued (task    *)
(* ids number the enqueues), whatever the order of completion.             *)
C10_FifoStart ==
    \A i \in 1..Len(deq_log) : deq_log[i] = i

(* both tasks started in order on different workers, the second finished   *)
(* first                                                                   *)
C10_Witness ==
    /\ deq_log = <<1, 2>>
    /\ exec_count[2] = 1
    /\ exec_count[1] = 0
    /\ \E w \in WorkerIds : wtask[w] = 1

(* C11: a step in which a shutdown() call returns ends with an empty task  *)
(* queue (get_task_count() == 0) and the pool status TERMINATED.           *)
C11_ShutdownReturnsDrained ==
    [][\A c \in Clients :
          (cop[c] = "shutdown" /\ cpc[c] # "idle" /\ cpc'[c] = "idle")
          => (task_queue' = <<>> /\ status' = "TERMINATED")]_vars

(* C12: a shutdown() that has started on a pool with at least one worker   *)
(* eventually returns, whatever submissions, pause and resume came before. *)
C12_ShutdownReturns ==
    \A c \in Clients :
        (cop[c] = "shutdown" /\ Len(worker_list) >= 1) ~> (cop[c] # "shutdown")

(* C13: every task accepted before shutdown() began is executed exactly    *)
(* once: it is never run twice, and once shutdown() has begun on a pool    *)
(* with at least one worker it is eventually run.                          *)
C13_ShutdownDropsNoTask ==
    \A t \in TaskIds :
        /\ [](exec_count[t] <= 1)
        /\ (/\ \E c \in Clients : cop[c] = "shutdown"
            /\ Len(worker_list) >= 1
            /\ accepted >= t) ~> (exec_count[t] = 1)

(* C14: once terminate() has returned (the status is TERMINATED and no     *)
(* call holds the status lock), a submit that reads the status fails with  *)
(* the terminated error, and no step makes the task queue longer.          *)
C14_NoEnqueueAfterTerminate ==
    [][(status = "TERMINATED" /\ status_mutex = NoOwner)
          => /\ Len(task_queue') <= Len(task_queue)
             /\ \A c \in Submitters :
                   (cpc[c] = "s_status" /\ cpc'[c] # "s_status")
                   => (cpc'[c] = "idle" /\ cret'[c] = "terminated")]_vars

(* C15: the pool status only moves toward termination: TERMINATED is      *)
(* never left, TERMINATING is followed only by TERMINATED, and a pool that *)
(* is SHUTDOWN is never RUNNING or PAUSED again, whatever pause, resume,   *)
(* shutdown and terminate calls are made.                                  *)
C15_StatusMovesTowardTermination ==
    [][/\ status = "TERMINATED" => status' = "TERMINATED"
       /\ status = "TERMINATING" => status' \in {"TERMINATING", "TERMINATED"}
       /\ status = "SHUTDOWN" => status' \in {"SHUTDOWN", "TERMINATING", "TERMINATED"}]_vars

(* a resume() running inside a pool that is already TERMINATED *)
C15_Witness ==
    /\ status = "TERMINATED"
    /\ cop[Admin] = "resume"
    /\ cpc[Admin] = "r_return"

(* C16: a pause() called on a pool that is not RUNNING, and a resume()     *)
(* called on a pool that is not PAUSED, change nothing: the step that      *)
(* enters the call and the step that returns from it leave the pool        *)
(* status, every worker's status and wake signal, and the task queue as    *)
(* they are, and the call has no step between the two.                     *)
C16_PauseResumeOnlyInTheirState ==
    [][\A c \in Clients :
          (\/ /\ cpc[c] = "idle"
              /\ cpc'[c] # "idle"
              /\ \/ cop'[c] = "pause" /\ status # "RUNNING"
                 \/ cop'[c] = "resume" /\ status # "PAUSED"
           \/ /\ cpc[c] \in {"p_return", "r_return"}
              /\ cpc'[c] # cpc[c])
          => /\ status' = status
             /\ wstatus' = wstatus
             /\ pause_sem' = pause_sem
             /\ task_queue' = task_queue
             /\ cpc'[c] \in {"p_return", "r_return", "idle"}]_vars

(* a pause() running inside a pool that is PAUSED, with a paused worker    *)
(* and a task in the queue                                                 *)
C16_Witness ==
    /\ status = "PAUSED"
    /\ cop[Admin] = "pause"
    /\ cpc[Admin] = "p_return"
    /\ \E w \in WorkerIds : wstatus[w] = "PAUSED"
    /\ task_queue # <<>>

(* C17: a task that throws leaves its exception in its own result channel *)
(* and in no other; the worker that ran it keeps its status and goes back  *)
(* to the head of its loop, the number of workers is unchanged, and every  *)
(* accepted task, one submitted after the failure included, is eventually  *)
(* run to its own outcome.                                                 *)
C17_FailureStaysInItsChannel ==
    /\ [][\A w \in WorkerIds :
             (/\ wpc[w] = "run"
              /\ wpc'[w] # "run"
              /\ Invoke(targs[wtask[w]]) = TestException)
             => /\ result' = [result EXCEPT ![wtask[w]] = TestException]
                /\ wstatus' = wstatus
                /\ wstatus[w] # "TERMINATED"
                /\ wpc'[w] = "top"
                /\ Len(worker_list') = Len(worker_list)]_vars
    /\ \A t \in TaskIds :
          (Len(worker_list) >= 1 /\ accepted >= t) ~> (result[t] = Invoke(targs[t]))

(* the only worker has run a task that threw and then add(8, 9) *)
C17_Witness ==
    /\ Len(worker_list) = 1
    /\ result[1] = TestException
    /\ result[2] = 17
    /\ wstatus[worker_list[1]] \notin {"TERMINATING", "TERMINATED"}

(* C18: when a remove_thread(n) call ends on a pool that had c workers,    *)
(* the list holds max(0, c - n) workers, they are the c - n oldest, and    *)
(* every worker that was removed is TERMINATED and joined.                 *)
C18_RemoveLeavesCount ==
    [][\A c \in Clients :
          (cop[c] = "remove_thread" /\ cpc[c] # "idle" /\ cpc'[c] = "idle")
          => LET had == Len(list_at_call)
                 n == cargs[c][1]
                 left == IF had > n THEN had - n ELSE 0
             IN /\ worker_list' = SubSeq(list_at_call, 1, left)
                /\ \A i \in (left + 1)..had :
                      /\ list_at_call[i] \in joined'
                      /\ wstatus'[list_at_call[i]] = "TERMINATED"]_vars

(* C18, for the calls that return: when a remove_thread(n) call returns    *)
(* without throwing on a pool that had c workers, the list holds           *)
(* max(0, c - n) workers, they are the c - n oldest, every removed worker  *)
(* is TERMINATED and joined; and no step takes a worker off the list       *)
(* unless its thread has exited and the step joins it.                     *)
C18_ReturningRemoveLeavesCount ==
    [][/\ \A c \in Clients :
            (cop[c] = "remove_thread" /\ cret'[c] = "removed" /\ cpc'[c] = "idle"
                /\ cpc[c] # "idle")
            => LET had == Len(list_at_call)
                   n == cargs[c][1]
                   left == IF had > n THEN had - n ELSE 0
               IN /\ worker_list' = SubSeq(list_at_call, 1, left)
                  /\ \A i \in (left + 1)..had :
                        /\ list_at_call[i] \in joined'
                        /\ wstatus'[list_at_call[i]] = "TERMINATED"
       /\ \A w \in WorkerIds :
            (InList(w) /\ ~(\E i \in 1..Len(worker_list') : worker_list'[i] = w))
            => /\ wpc[w] = "exited"
               /\ wstatus[w] = "TERMINATED"
               /\ w \in joined']_vars

(* remove_thread(1) has returned on a pool of two workers: the newer one   *)
(* is joined and gone, the older one is left                               *)
C18_Witness ==
    /\ cret[Admin] = "removed"
    /\ cpc[Admin] = "idle"
    /\ list_at_call = <<1, 2>>
    /\ worker_list = <<1>>
    /\ joined = {2}

(* C19: a remove_thread call that has begun eventually ends. *)
C19_RemoveThreadReturns ==
    \A c \in Clients : (cop[c] = "remove_thread") ~> (cop[c] # "remove_thread")

(* C20: once remove_thread has returned leaving at least one worker in a   *)
(* RUNNING pool, a task that is in the queue is eventually run, unless a   *)
(* later removal takes the last worker.                                    *)
C20_PendingTasksRunAfterRemove ==
    \A t \in TaskIds :
        (/\ cret[Admin] = "removed"
         /\ cpc[Admin] = "idle"
         /\ status = "RUNNING"
         /\ Len(worker_list) >= 1
         /\ \E i \in 1..Len(task_queue) : task_queue[i] = t)
            ~> (exec_count[t] >= 1 \/ Len(worker_list) = 0)

(* C21: an add_thread(n) that finds the pool RUNNING or SHUTDOWN appends   *)
(* exactly n workers to the list, each with status RUNNING and its thread  *)
(* started; one that finds the pool PAUSED, TERMINATING or TERMINATED ends *)
(* with an error and leaves the worker list and the pool status as they    *)
(* were.                                                                   *)
C21_AddThreadAddsOrRejects ==
    [][\A c \in Clients :
          (cop[c] = "add_thread" /\ cpc[c] # "idle" /\ cpc'[c] = "idle")
          => IF status \in {"RUNNING", "SHUTDOWN"}
             THEN /\ Len(worker_list') = Len(worker_list) + cargs[c][1]
                  /\ SubSeq(worker_list', 1, Len(worker_list)) = worker_list
                  /\ \A i \in (Len(worker_list) + 1)..Len(worker_list') :
                        /\ ~InList(worker_list'[i])
                        /\ wstatus'[worker_list'[i]] = "RUNNING"
                        /\ wpc'[worker_list'[i]] = "top"
                  /\ cret'[c] = "added"
                  /\ status' = status
             ELSE /\ cret'[c] = "cannot_add"
                  /\ worker_list' = worker_list
                  /\ status' = status]_vars

(* add_thread(2) is about to return on a RUNNING pool that had no worker *)
C21_Witness ==
    /\ cop[Admin] = "add_thread"
    /\ cpc[Admin] = "add_emplace"
    /\ cargs[Admin] = <<2>>
    /\ worker_list = <<>>
    /\ status = "RUNNING"

C23_WaitReturnsOnEmptyQueue ==
    [][\A c \in Clients :
          (cop[c] = "wait" /\ cpc[c] # "idle" /\ cpc'[c] = "idle")
          => task_queue' = <<>>]_vars

(* C24: when wait() returns to the thread that made every submission,      *)
(* every task accepted so far has been run to completion.                  *)
C24_WaitReturnsAfterCompletion ==
    [][\A c \in Clients :
          (cop[c] = "wait" /\ cpc[c] # "idle" /\ cpc'[c] = "idle")
          => \A t \in 1..accepted : exec_count'[t] >= 1]_vars

(* C25: on a pool that stays RUNNING and has at least one worker, a wait() *)
(* made by the only submitting thread eventually returns.                  *)
C25_WaiterReleased ==
    \A c \in Clients :
        (cop[c] = "wait" /\ Len(worker_list) >= 1) ~> (cop[c] # "wait")

(* the waiter is blocked on the now-empty condition with a task queued *)
C25_Witness ==
    /\ cpc[FirstSubmitter] = "w_waiting"
    /\ Len(worker_list) >= 1
    /\ task_queue # <<>>

(* C26: a worker that begins to wait on task_queue_cv holds the queue     *)
(* lock and the queue is empty at that moment.                             *)
C26_WaitsOnlyOnEmptyQueue ==
    [][\A w \in WorkerIds :
          (wpc[w] = "cv_wait" /\ wpc'[w] = "cv_waiting")
          => /\ task_queue = <<>>
             /\ queue_mutex = w]_vars

(* C27: a task is appended to the queue only while the pool status is     *)
(* RUNNING and no shutdown() call is in progress.                          *)
C27_EnqueueOnlyWhileRunning ==
    [][Len(task_queue') > Len(task_queue)
          => /\ status = "RUNNING"
             /\ \A c \in Clients : cop[c] # "shutdown"]_vars

(* C28: once terminate() or shutdown_now() has returned (the status is     *)
(* TERMINATED and no call holds the status lock), no worker pops a task    *)
(* from the queue.                                                         *)
C28_NoDequeueAfterTerminate ==
    [][(status = "TERMINATED" /\ status_mutex = NoOwner)
          => /\ deq_log' = deq_log
             /\ \A w \in WorkerIds : wtask'[w] # NoTask => wtask'[w] = wtask[w]]_vars

(* C29: a wait() that is blocked on a PAUSED pool that has workers and a   *)
(* non-empty queue eventually returns, the resume() of another thread      *)
(* having completed.                                                       *)
C29_WaitOnPausedPoolReturns ==
    (/\ cpc[FirstSubmitter] = "w_waiting"
     /\ status = "PAUSED"
     /\ worker_list # <<>>
     /\ task_queue # <<>>) ~> (cop[FirstSubmitter] # "wait")

(* C30: pause_sem is released (by resume or terminate of a PAUSED worker)  *)
(* only while it holds no permit.                                          *)
C30_SemaphoreReleasedOnlyWhenEmpty ==
    [][\A w \in WorkerIds :
          (wstatus[w] = "PAUSED" /\ wstatus'[w] # "PAUSED")
          => pause_sem[w] = 0]_vars

(* C31: whenever no administrative call holds the status lock, a PAUSED   *)
(* pool has only PAUSED workers in its list and a RUNNING pool has none.   *)
C31_WorkersFollowPoolPause ==
    status_mutex = NoOwner
    => /\ status = "PAUSED"
          => \A i \in 1..Len(worker_list) : wstatus[worker_list[i]] = "PAUSED"
       /\ status = "RUNNING"
          => \A i \in 1..Len(worker_list) : wstatus[worker_list[i]] # "PAUSED"

(* pause() has returned on a pool of two workers, one of which was waiting *)
(* for a task when it was paused and still is                              *)
C31_Witness ==
    /\ status = "PAUSED"
    /\ status_mutex = NoOwner
    /\ Len(worker_list) = 2
    /\ \A i \in 1..Len(worker_list) : wstatus[worker_list[i]] = "PAUSED"
    /\ \E i \in 1..Len(worker_list) : wpc[worker_list[i]] = "cv_waiting"

(* C32: no worker takes the undefined-status branch of a status switch: a *)
(* worker about to run the switch at the top of its loop is not BLOCKED,   *)
(* and the pool status and every worker status are among their five values. *)
C32_NoUndefinedStatus ==
    /\ status \in PoolStatuses
    /\ \A w \in WorkerIds :
          /\ wstatus[w] \in WorkerStatuses
          /\ wpc[w] # "error"
          /\ wpc[w] = "top" => wstatus[w] # "BLOCKED"

(* after a pause and a resume a worker that has run a task is back at the  *)
(* top of its loop while another worker is BLOCKED                         *)
C32_Witness ==
    /\ pauses > 0
    /\ status = "RUNNING"
    /\ \E w, v \in WorkerIds :
          /\ wpc[w] = "top"
          /\ wstatus[w] = "RUNNING"
          /\ wstatus[v] = "BLOCKED"
    /\ \E t \in TaskIds : exec_count[t] > 0

(* C33: a worker's pause() changes its status only from RUNNING or        *)
(* BLOCKED, to PAUSED; resume() only from PAUSED, to RUNNING; terminate()  *)
(* returns the prior status and changes a status that is already          *)
(* TERMINATING or TERMINATED no more; a status that is TERMINATING or      *)
(* TERMINATED never becomes RUNNING, PAUSED or BLOCKED again.              *)
C33_WorkerStatusMachine ==
    [][\A w \in WorkerIds :
          LET called == ci[Admin] \in 1..Len(worker_list) /\ worker_list[ci[Admin]] = w
              looped == called /\ ci'[Admin] = ci[Admin] + 1
              ended  == {"TERMINATING", "TERMINATED"}
          IN /\ wstatus[w] \in ended => wstatus'[w] \in ended
             /\ (cpc[Admin] = "p_loop" /\ looped)
                => wstatus'[w] = IF wstatus[w] \in {"RUNNING", "BLOCKED"}
                                 THEN "PAUSED" ELSE wstatus[w]
             /\ (cpc[Admin] = "r_loop" /\ looped)
                => wstatus'[w] = IF wstatus[w] = "PAUSED"
                                 THEN "RUNNING" ELSE wstatus[w]
             /\ \/ cpc[Admin] = "t_loop" /\ looped
                \/ cpc[Admin] = "d_term" /\ called /\ cpc'[Admin] = "d_notify"
                => wstatus'[w] = IF wstatus[w] \in ended
                                 THEN wstatus[w] ELSE "TERMINATING"
             /\ (cpc[Admin] = "d_term" /\ called /\ cpc'[Admin] = "d_notify")
                => clast'[Admin] = wstatus[w]]_vars

(* ~worker_thread has terminated a second time a worker that terminate()   *)
(* had found PAUSED after a pause(): the call returned the status the      *)
(* worker had, TERMINATING or TERMINATED                                   *)
C33_Witness ==
    /\ pauses > 0
    /\ cpc[Admin] = "d_notify"
    /\ clast[Admin] \in {"TERMINATING", "TERMINATED"}
    /\ wstatus[worker_list[ci[Admin]]] = clast[Admin]

(* C34: a worker that is blocked on pause_sem or is executing a task owns *)
(* neither its own status lock nor the queue lock; it owns its status lock *)
(* only at a status switch and the queue lock only from the emptiness      *)
(* check to the wait or the pop.                                           *)
C34_NoLockWhileBlockedOrBusy ==
    \A w \in WorkerIds :
       /\ wpc[w] \in {"sem_top", "sem_pre", "sem_post", "run"}
          => wstatus_mutex[w] # w /\ queue_mutex # w
       /\ wstatus_mutex[w] = w => wpc[w] \in {"top", "pre_wait", "post_wait"}
       /\ queue_mutex = w => wpc[w] \in {"pre_wait", "cv_wait", "post_wait", "dequeue"}

(* one worker is blocked on pause_sem, having released the queue lock it   *)
(* held at the switch, while the other owns that lock and its own status   *)
(* lock                                                                    *)
C34_Witness ==
    \E w, v \in WorkerIds :
       /\ wpc[w] = "sem_pre"
       /\ pause_sem[w] = 0
       /\ queue_mutex = v
       /\ wstatus_mutex[v] = v

====
